---- MODULE Spec2Model ----
(***************************************************************************)
(* IDXSeleniumScraper (notebook/scraping_idx.py): the heading-delimited    *)
(* section extractor _extract_section, its text post-processing, and the   *)
(* batch driver scrape_multiple / scrape_company with the browser session  *)
(* it owns.                                                                *)
(*                                                                         *)
(* Strings the code inspects character by character (node texts, section  *)
(* fields) are sequences of one-character strings.  Strings the code only *)
(* builds and stores (URL, Status) are sequences of their parts.          *)
(***************************************************************************)
EXTENDS Integers, Sequences, FiniteSets, TLC

VARIABLES
    \* ---- one call of _extract_section ----
    soup,           \* the parsed document handed to the extractor
    keyword,        \* the keyword argument
    xpc,            \* "ready" before the call, "done" after it
    outcome,        \* how the call ended: "return" or "raise"
    result,         \* the string it returned
    section_header, \* local: index of the matched text node, 0 for None
    parent,         \* local: the anchor (None, the wrapper or a child element)
    section_text,   \* local: the accumulated fragments
    \* ---- the scraper object and one scrape_multiple call ----
    driver,         \* self.driver: "None" or "Chrome"
    session,        \* the browser session of self.driver: "none", "live", "quit"
    quitCalls,      \* driver.quit() calls made on the session so far
    getOnReleased,  \* a driver.get was issued on a session already quit
    pc,             \* position in scrape_multiple
    emiten_list,    \* its argument
    i,              \* identifiers processed so far in the loop
    results,        \* its local list of records
    pauses,         \* time.sleep calls made by the current call
    callQuits,      \* driver.quit() calls made by the current call
    calls,          \* scrape_multiple / scrape_company calls started on the object
    escaped,        \* an exception is unwinding through scrape_multiple
    table,          \* the DataFrame rows the last call returned
    last            \* the last scrape_company call: its record and what it did

xvars == <<soup, keyword, xpc, outcome, result, section_header, parent, section_text>>
bvars == <<driver, session, quitCalls, getOnReleased, pc, emiten_list, i, results,
           pauses, callQuits, calls, escaped, table, last>>
vars == <<xvars, bvars>>

(***************************************************************************)
(* Bounds                                                                  *)
(***************************************************************************)
MaxKids == 3        \* children of the wrapper element in an extractor document
MaxFrags == 2       \* fragments handed to the post-processing
MaxFragLen == 3     \* characters of one sibling text in the post-processing
MaxList == 3        \* identifiers in one batch
MaxCalls == 2       \* calls made on one scraper object

(***************************************************************************)
(* Strings                                                                 *)
(***************************************************************************)
NotFound == <<"N", "o", "t", " ", "f", "o", "u", "n", "d">>
ErrorPrefix == <<"E", "r", "r", "o", "r", ":", " ">>
NA == <<"N", "/", "A">>
Delimiter == <<" ", "|", " ">>
Pipe == <<"|">>
DoubleSpace == <<" ", " ">>
\* str(e) of the AttributeError raised by None.find_next_siblings()
NoneTypeMsg ==
    <<"'", "N", "o", "n", "e", "T", "y", "p", "e", "'", " ", "o", "b", "j", "e",
      "c", "t", " ", "h", "a", "s", " ", "n", "o", " ", "a", "t", "t", "r", "i",
      "b", "u", "t", "e", " ", "'", "f", "i", "n", "d", "_", "n", "e", "x", "t",
      "_", "s", "i", "b", "l", "i", "n", "g", "s", "'">>

LowerTable ==
    ("A" :> "a") @@ ("B" :> "b") @@ ("C" :> "c") @@ ("D" :> "d") @@ ("E" :> "e") @@
    ("F" :> "f") @@ ("G" :> "g") @@ ("H" :> "h") @@ ("I" :> "i") @@ ("J" :> "j") @@
    ("K" :> "k") @@ ("L" :> "l") @@ ("M" :> "m") @@ ("N" :> "n") @@ ("O" :> "o") @@
    ("P" :> "p") @@ ("Q" :> "q") @@ ("R" :> "r") @@ ("S" :> "s") @@ ("T" :> "t") @@
    ("U" :> "u") @@ ("V" :> "v") @@ ("W" :> "w") @@ ("X" :> "x") @@ ("Y" :> "y") @@
    ("Z" :> "z")

\* str.lower()
Lower(s) == [n \in 1..Len(s) |-> IF s[n] \in DOMAIN LowerTable THEN LowerTable[s[n]] ELSE s[n]]

\* the `in` operator on strings: sub occurs in s as a contiguous substring
Contains(s, sub) ==
    \E n \in 0..(Len(s) - Len(sub)) : SubSeq(s, n + 1, n + Len(sub)) = sub

HasPrefix(s, p) == Len(s) >= Len(p) /\ SubSeq(s, 1, Len(p)) = p

IsSpace(c) == c \in {" ", "\n", "\t"}

\* str.strip()
RECURSIVE LStrip(_)
LStrip(s) == IF s # <<>> /\ IsSpace(s[1]) THEN LStrip(Tail(s)) ELSE s
RECURSIVE RStrip(_)
RStrip(s) == IF s # <<>> /\ IsSpace(s[Len(s)]) THEN RStrip(SubSeq(s, 1, Len(s) - 1)) ELSE s
Strip(s) == RStrip(LStrip(s))

\* sep.join(parts)
RECURSIVE Join(_, _)
Join(sep, parts) ==
    IF parts = <<>> THEN <<>>
    ELSE IF Len(parts) = 1 THEN parts[1]
    ELSE parts[1] \o sep \o Join(sep, Tail(parts))

\* s.split('  '): cut at every non-overlapping double space, scanning from the
\* left, keeping empty pieces; cur is the piece being read
RECURSIVE SplitFrom(_, _)
SplitFrom(s, cur) ==
    IF s = <<>> THEN <<cur>>
    ELSE IF HasPrefix(s, DoubleSpace)
         THEN <<cur>> \o SplitFrom(SubSeq(s, 3, Len(s)), <<>>)
         ELSE SplitFrom(Tail(s), Append(cur, s[1]))
Split(s) == SplitFrom(s, <<>>)

\* filter(None, pieces)
NonEmptyPieces(pieces) == SelectSeq(pieces, LAMBDA p : p # <<>>)

\* lines 100-102: '|'.join(section_text).strip(), split on double spaces,
\* rejoin the non-empty pieces with ' | '
PostProcess(frags) ==
    LET combined_text == Strip(Join(Pipe, frags))
    IN  Join(Delimiter, NonEmptyPieces(Split(combined_text)))

(***************************************************************************)
(* The document tree.  A document is one wrapper element (a div, or a body *)
(* which is not structural) with a sequence of children; a child is an    *)
(* element with its text, or a bare text node (name "#text").             *)
(***************************************************************************)
Headings == {"h2", "h3"}
Structural == {"h2", "h3", "div"}

\* soup.find(string=lambda text: text and keyword.lower() in text.lower()):
\* the first text node in document order that matches, 0 for None
\* the predicate with its keyword test left out: any non-empty text matches
MatchesAnyText(text, kw) == text # <<>>

Matches(text, kw) == text # <<>> /\ Contains(Lower(text), Lower(kw))
FindString(doc, kw) ==
    LET hits == {k \in 1..Len(doc.kids) : Matches(doc.kids[k].text, kw)}
    IN  IF hits = {} THEN 0 ELSE CHOOSE k \in hits : \A h \in hits : k <= h

\* section_header.find_parent(['h2', 'h3', 'div']): the nearest structural
\* ancestor of text node k: its own element, else the wrapper, else None
NoAnchor == [at |-> "None", idx |-> 0]
FindParent(doc, k) ==
    IF doc.kids[k].name \in Structural THEN [at |-> "kid", idx |-> k]
    ELSE IF doc.wrap \in Structural THEN [at |-> "wrap", idx |-> 0]
    ELSE NoAnchor

\* parent.find_next_siblings(): the elements (not the bare text nodes) that
\* follow the anchor under the same parent, in document order
FindNextSiblings(doc, anchor) ==
    IF anchor.at = "wrap" THEN <<>>
    ELSE SelectSeq(SubSeq(doc.kids, anchor.idx + 1, Len(doc.kids)),
                   LAMBDA n : n.name # "#text")

\* sibling.get_text(strip=False)
GetText(node) == node.text

\* the loop stopping at every structural tag, a div included
RECURSIVE CollectStopAtDiv(_, _)
CollectStopAtDiv(sibs, acc) ==
    IF sibs = <<>> THEN acc
    ELSE IF sibs[1].name \in Structural THEN acc
    ELSE LET text == sibs[1].text
         IN  IF text # <<>>
             THEN CollectStopAtDiv(Tail(sibs), Append(acc, text \o Delimiter))
             ELSE CollectStopAtDiv(Tail(sibs), acc)

\* lines 88-97: the loop over the siblings, with its break
RECURSIVE Collect(_, _)
Collect(sibs, acc) ==
    IF sibs = <<>> THEN acc
    ELSE IF sibs[1].name \in Headings THEN acc
    ELSE LET text == GetText(sibs[1])
         IN  IF text # <<>>
             THEN Collect(Tail(sibs), Append(acc, text \o Delimiter))
             ELSE Collect(Tail(sibs), acc)

\* lines 80-104: the body of the try block; raised |-> TRUE when a statement
\* raises (None has no find_next_siblings)
TryBody(doc, kw) ==
    LET hdr == FindString(doc, kw)
    IN  IF hdr # 0
        THEN LET anchor == FindParent(doc, hdr)
             IN  IF anchor = NoAnchor
                 THEN [raised |-> TRUE, msg |-> NoneTypeMsg, ret |-> <<>>,
                       header |-> hdr, anchor |-> anchor, frags |-> <<>>]
                 ELSE LET frags == Collect(FindNextSiblings(doc, anchor), <<>>)
                      IN  [raised |-> FALSE, msg |-> <<>>, ret |-> PostProcess(frags),
                           header |-> hdr, anchor |-> anchor, frags |-> frags]
        ELSE [raised |-> FALSE, msg |-> <<>>, ret |-> NotFound,
              header |-> 0, anchor |-> NoAnchor, frags |-> <<>>]

\* the handler of lines 105-106 left out: the fault reaches the caller
HandleNoExcept(b) ==
    [outcome |-> IF b.raised THEN "raise" ELSE "return",
     value |-> b.ret, header |-> b.header, anchor |-> b.anchor, frags |-> b.frags]

\* lines 78, 105-106: try ... except Exception as e: return f"Error: {str(e)}"
Handle(b) ==
    [outcome |-> "return",
     value |-> IF b.raised THEN ErrorPrefix \o b.msg ELSE b.ret,
     header |-> b.header, anchor |-> b.anchor, frags |-> b.frags]

_extract_section(doc, kw) == Handle(TryBody(doc, kw))

(***************************************************************************)
(* One call of _extract_section on a document                             *)
(***************************************************************************)
\* the texts a node of an extractor document may carry: none, the keyword in
\* another case, the keyword inside a longer text, and a proper part of the
\* keyword (no match)
XKeyword == <<"K", "w">>
XTexts == {<<>>, <<"k", "W">>, <<"a", "k", "w">>, <<"k">>}
XNodes ==
    {[name |-> t, text |-> x] : t \in {"h2", "h3", "div", "p"}, x \in XTexts}
    \cup {[name |-> "#text", text |-> x] : x \in XTexts \ {<<>>}}
XDocs ==
    [wrap : {"div", "body"},
     kids : UNION {[1..n -> XNodes] : n \in 0..MaxKids}]

NoBatch ==
    /\ driver = "None" /\ session = "none" /\ quitCalls = 0
    /\ getOnReleased = FALSE /\ pc = "off" /\ emiten_list = <<>> /\ i = 0
    /\ results = <<>> /\ pauses = 0 /\ callQuits = 0 /\ calls = 0
    /\ escaped = FALSE /\ table = <<>> /\ last = <<>>

NoLocals ==
    /\ outcome = "none" /\ result = <<>> /\ section_header = 0
    /\ parent = NoAnchor /\ section_text = <<>>

InitExtract ==
    /\ soup \in XDocs
    /\ keyword = XKeyword
    /\ xpc = "ready"
    /\ NoLocals
    /\ NoBatch

\* lines 77-106
Extract ==
    /\ xpc = "ready"
    /\ LET r == _extract_section(soup, keyword)
       IN  /\ outcome' = r.outcome
           /\ result' = r.value
           /\ section_header' = r.header
           /\ parent' = r.anchor
           /\ section_text' = r.frags
    /\ xpc' = "done"
    /\ UNCHANGED <<soup, keyword, bvars>>

NextExtract == Extract

SpecExtract == InitExtract /\ [][NextExtract]_vars

(***************************************************************************)
(* The post-processing of lines 100-102 on its own, over sibling texts    *)
(* with spaces in them                                                    *)
(***************************************************************************)
PChars == {"a", " "}
PTexts == UNION {[1..n -> PChars] : n \in 1..MaxFragLen}
\* section_text as the loop builds it: each non-empty text plus ' | '
PFragLists ==
    UNION {[1..n -> {x \o Delimiter : x \in PTexts}] : n \in 0..MaxFrags}

NoDoc == [wrap |-> "body", kids |-> <<>>]

InitPost ==
    /\ section_text \in PFragLists
    /\ soup = NoDoc /\ keyword = XKeyword
    /\ xpc = "collected"
    /\ outcome = "none" /\ result = <<>> /\ section_header = 0 /\ parent = NoAnchor
    /\ NoBatch

Post ==
    /\ xpc = "collected"
    /\ result' = PostProcess(section_text)
    /\ outcome' = "return"
    /\ xpc' = "done"
    /\ UNCHANGED <<soup, keyword, section_header, parent, section_text, bvars>>

NextPost == Post

SpecPost == InitPost /\ [][NextPost]_vars

(***************************************************************************)
(* Properties of _extract_section (checked under SpecExtract)             *)
(***************************************************************************)
ExtractDone == xpc = "done"

\* the text nodes of the document that contain the keyword, ignoring case
KeywordNodes ==
    {k \in 1..Len(soup.kids) :
        \E n \in 1..Len(soup.kids[k].text) :
            \E m \in n..Len(soup.kids[k].text) :
                Lower(SubSeq(soup.kids[k].text, n, m)) = Lower(keyword)}

\* the first of them has no h2, h3 or div above it
AnchorMissing ==
    /\ KeywordNodes # {}
    /\ LET k == CHOOSE h \in KeywordNodes : \A g \in KeywordNodes : h <= g
       IN  soup.kids[k].name \notin {"h2", "h3", "div"}
    /\ soup.wrap \notin {"h2", "h3", "div"}

\* C1: _extract_section always returns to its caller, and what it returns is
\* the post-processed section text, exactly "Not found", or a string that
\* starts with "Error: "; the fault raised while resolving the anchor comes
\* back as "Error: <message>".
C1_NeverRaises ==
    xpc = "done" =>
        /\ outcome = "return"
        /\ \/ result = NotFound
           \/ HasPrefix(result, ErrorPrefix)
           \/ /\ KeywordNodes # {}
              /\ ~AnchorMissing
              /\ result = PostProcess(section_text)
        /\ AnchorMissing => result = ErrorPrefix \o NoneTypeMsg

\* a fault was raised inside the call and came back as an "Error: " string
C1_Witness ==
    /\ ExtractDone
    /\ AnchorMissing
    /\ outcome = "return"
    /\ HasPrefix(result, ErrorPrefix)
    /\ Len(result) > Len(ErrorPrefix)

\* C2: when no text node of the document contains the keyword (ignoring
\* case, as a substring), the call returns exactly "Not found".
C2_NotFound ==
    (xpc = "done" /\ KeywordNodes = {}) =>
        /\ outcome = "return"
        /\ result = NotFound

\* a document with several text nodes, none containing the keyword
C2_Witness ==
    /\ ExtractDone
    /\ KeywordNodes = {}
    /\ Cardinality({k \in 1..Len(soup.kids) : soup.kids[k].text # <<>>}) >= 2
    /\ \E k \in 1..Len(soup.kids) : soup.kids[k].text = <<"k">>
    /\ result = NotFound

\* C7: when a text node matches the keyword but has no h2, h3 or div
\* ancestor, the call returns exactly "Not found".
C7_NoAnchorIsNotFound ==
    (xpc = "done" /\ AnchorMissing) => result = NotFound

\* the fragments the claim describes: the non-empty texts of the elements
\* that follow the anchor, up to the first h2 or h3 among them
ExpectedFragments ==
    LET last_kid == Len(soup.kids)
        following == IF parent.at = "kid" THEN (parent.idx + 1)..last_kid ELSE {}
        headings == {j \in following : soup.kids[j].name \in {"h2", "h3"}}
        stop == IF headings = {} THEN last_kid + 1
                ELSE CHOOSE j \in headings : \A h \in headings : j <= h
        tagged == [j \in 1..last_kid |-> [pos |-> j, node |-> soup.kids[j]]]
        kept == SelectSeq(tagged, LAMBDA e : /\ e.pos \in following
                                             /\ e.pos < stop
                                             /\ e.node.name # "#text"
                                             /\ e.node.text # <<>>)
    IN  [n \in 1..Len(kept) |-> kept[n].node.text \o Delimiter]

Pipes(s) == {n \in 1..Len(s) : s[n] = "|"}
TextChars(s) == {n \in 1..Len(s) : s[n] \notin {"|", " "}}
\* a "|" with fragment text somewhere before it and somewhere after it
Between(s, n) == (\E a \in TextChars(s) : a < n) /\ (\E b \in TextChars(s) : b > n)

\* C9: the returned string has no two consecutive spaces, and every "|"
\* between two fragments is the single " | " separator between them.
C9_UniformSeparator ==
    xpc = "done" =>
        /\ ~Contains(result, DoubleSpace)
        /\ \A n \in Pipes(result) :
              Between(result, n) =>
                 /\ result[n - 1] = " " /\ result[n + 1] = " "
                 /\ \A m \in Pipes(result) :
                       m > n => \E a \in TextChars(result) : n < a /\ a < m

(***************************************************************************)
(* scrape_company and scrape_multiple                                     *)
(***************************************************************************)
\* lines 61-67: the keyword each field is extracted with
SectionKeywords ==
    <<<<"P", "r", "o", "f", "i", "l", "e">>,
      <<"D", "i", "r", "e", "c", "t", "o", "r">>,
      <<"C", "o", "m", "i", "s", "s", "i", "o", "n", "e", "r", "s">>,
      <<"A", "u", "d", "i", "t", " ", "C", "o", "m", "m", "i", "t", "t", "e", "e">>,
      <<"S", "h", "a", "r", "e", "h", "o", "l", "d", "e", "r", "s">>,
      <<"S", "u", "b", "s", "i", "d", "i", "a", "r", "y">>,
      <<"P", "u", "b", "l", "i", "c", " ", "A", "c", "c", "o", "u", "n", "t", "a", "n", "t">>>>

UrlPrefix == "https://www.idx.co.id/en/listed-companies/company-profiles/"
\* line 38
Url(emiten_code) == <<UrlPrefix, emiten_code>>

Success == <<"Success">>

\* the pages a load can bring back
\* <div><h2>Profile</h2><p>Foo  Bar</p><h3>DIRECTOR</h3><p>N/A</p></div>
PageSections ==
    [wrap |-> "div",
     kids |-> <<[name |-> "h2", text |-> <<"P", "r", "o", "f", "i", "l", "e">>],
                [name |-> "p", text |-> <<"F", "o", "o", " ", " ", "B", "a", "r">>],
                [name |-> "h3", text |-> <<"D", "I", "R", "E", "C", "T", "O", "R">>],
                [name |-> "p", text |-> <<"N", "/", "A">>]>>]
\* <body><p>Profile</p><h2>Subsidiary</h2></body>
PageLoose ==
    [wrap |-> "body",
     kids |-> <<[name |-> "p", text |-> <<"P", "r", "o", "f", "i", "l", "e">>],
                [name |-> "h2", text |-> <<"S", "u", "b", "s", "i", "d", "i", "a", "r", "y">>]>>]
\* <body></body>
PageBlank == [wrap |-> "body", kids |-> <<>>]
Pages == {PageSections, PageLoose, PageBlank}

EmitenCodes == {"AAA", "BBB"}

\* str(e) of the faults a page load can raise
SetupMsg == "session not created"
GetMsg == "net::ERR_CONNECTION_RESET"
ReleasedMsg == "invalid session id"
TimeoutMsg == "Message: "

\* what the browser does during one scrape_company call: the statement of
\* the try block that raises if it is reached (the Chrome constructor,
\* driver.get, the wait for the body), and the page a clean load brings back
Envs ==
    {[fails |-> "nothing", page |-> p] : p \in Pages}
    \cup {[fails |-> f, page |-> PageBlank] : f \in {"setup", "get", "wait"}}

\* the error record built from a Success record: the section fields keep
\* what the extractor found
ErrorDictKeepsFields(emiten_code, url, error) ==
    [Emiten_Code |-> emiten_code, URL |-> url, Status |-> <<"Error: ", error>>,
     Profile |-> NotFound, Director |-> NotFound, Comissioners |-> NotFound,
     Audit_Committee |-> NotFound, Shareholders |-> NotFound,
     Subsidiary |-> NotFound, Public_Accountant |-> NotFound]

\* lines 110-122
_get_error_dict(emiten_code, url, error) ==
    [Emiten_Code |-> emiten_code, URL |-> url, Status |-> <<"Error: ", error>>,
     Profile |-> NA, Director |-> NA, Comissioners |-> NA,
     Audit_Committee |-> NA, Shareholders |-> NA,
     Subsidiary |-> NA, Public_Accountant |-> NA]

\* lines 57-68
SuccessDict(emiten_code, url, page) ==
    [Emiten_Code |-> emiten_code, URL |-> url, Status |-> Success,
     Profile |-> _extract_section(page, SectionKeywords[1]).value,
     Director |-> _extract_section(page, SectionKeywords[2]).value,
     Comissioners |-> _extract_section(page, SectionKeywords[3]).value,
     Audit_Committee |-> _extract_section(page, SectionKeywords[4]).value,
     Shareholders |-> _extract_section(page, SectionKeywords[5]).value,
     Subsidiary |-> _extract_section(page, SectionKeywords[6]).value,
     Public_Accountant |-> _extract_section(page, SectionKeywords[7]).value]

\* lines 41-42: the driver and its session after `if not self.driver:
\* self._setup_driver()`; the Chrome constructor may raise
AfterSetup(drv, sess, env) ==
    IF drv # "None" THEN [driver |-> drv, session |-> sess, raised |-> FALSE]
    ELSE IF env.fails # "setup" THEN [driver |-> "Chrome", session |-> "live", raised |-> FALSE]
    ELSE [driver |-> "None", session |-> "none", raised |-> TRUE]

\* lines 36-75: one scrape_company call on a scraper whose driver and session
\* are drv and sess.  fault names the statement of the try block that raised
\* ("none" when the page was fetched), extractCalls counts the
\* _extract_section calls made, gotReleased says driver.get ran on a session
\* that was already quit.
scrape_company(drv, sess, emiten_code, env) ==
    LET url == Url(emiten_code)
        s1 == AfterSetup(drv, sess, env)
        fault == IF s1.raised THEN "setup"
                 ELSE IF s1.session = "quit" THEN "released"
                 ELSE IF env.fails = "get" THEN "get"
                 ELSE IF env.fails = "wait" THEN "wait"
                 ELSE "none"
        msg == CASE fault = "setup" -> SetupMsg
                 [] fault = "released" -> ReleasedMsg
                 [] fault = "get" -> GetMsg
                 [] fault = "wait" -> TimeoutMsg
                 [] OTHER -> ""
    IN  [driver |-> s1.driver,
         session |-> s1.session,
         gotReleased |-> ~s1.raised /\ s1.session = "quit",
         fault |-> fault,
         msg |-> msg,
         extractCalls |-> IF fault = "none" THEN Len(SectionKeywords) ELSE 0,
         rec |-> IF fault = "none" THEN SuccessDict(emiten_code, url, env.page)
                 ELSE _get_error_dict(emiten_code, url, msg)]

Lists == UNION {[1..n -> EmitenCodes] : n \in 0..MaxList}

Init ==
    /\ driver = "None"          \* line 20
    /\ session = "none"
    /\ quitCalls = 0
    /\ getOnReleased = FALSE
    /\ pc = "idle"
    /\ emiten_list = <<>>
    /\ i = 0
    /\ results = <<>>
    /\ pauses = 0
    /\ callQuits = 0
    /\ calls = 0
    /\ escaped = FALSE
    /\ table = <<>>
    /\ last = <<>>
    /\ soup = NoDoc /\ keyword = XKeyword /\ xpc = "off" /\ NoLocals

Resting == pc \in {"idle", "returned", "propagated"}

\* lines 124-128: scrape_multiple is entered
Call(list) ==
    /\ Resting
    /\ calls < MaxCalls
    /\ calls' = calls + 1
    /\ emiten_list' = list
    /\ i' = 0
    /\ results' = <<>>
    /\ pauses' = 0
    /\ callQuits' = 0
    /\ escaped' = FALSE
    /\ table' = <<>>
    /\ last' = <<>>
    /\ pc' = IF list = <<>> THEN "finally" ELSE "loop"
    /\ UNCHANGED <<driver, session, quitCalls, getOnReleased, xvars>>

\* results.append(data) leaving error records out
AppendSuccessOnly(rs, data) ==
    IF data.Status = Success THEN Append(rs, data) ELSE rs

\* line 132
AppendRecord(rs, data) == Append(rs, data)

\* `if i <= len(emiten_list)`: a pause after the last identifier too
PauseDueAlways(n, len) == n <= len

\* line 134
PauseDue(n, len) == n < len

\* lines 129-134: one iteration up to the pause test
LoopBody(env) ==
    /\ pc = "loop"
    /\ LET c == scrape_company(driver, session, emiten_list[i + 1], env)
       IN  /\ driver' = c.driver
           /\ session' = c.session
           /\ getOnReleased' = (getOnReleased \/ c.gotReleased)
           /\ last' = <<[rec |-> c.rec, fault |-> c.fault, msg |-> c.msg,
                         extractCalls |-> c.extractCalls]>>
           /\ results' = AppendRecord(results, c.rec)
    /\ i' = i + 1
    /\ pc' = IF PauseDue(i + 1, Len(emiten_list)) THEN "pause" ELSE "finally"
    /\ UNCHANGED <<quitCalls, emiten_list, pauses, callQuits, calls, escaped, table, xvars>>

\* an exception that `except Exception` does not catch (KeyboardInterrupt)
\* leaves scrape_company while the page loads
LoopInterrupted(env) ==
    /\ pc = "loop"
    /\ LET s1 == AfterSetup(driver, session, env)
       IN  /\ ~s1.raised
           /\ driver' = s1.driver
           /\ session' = s1.session
           /\ getOnReleased' = (getOnReleased \/ s1.session = "quit")
    /\ escaped' = TRUE
    /\ pc' = "finally"
    /\ UNCHANGED <<quitCalls, emiten_list, i, results, pauses, callQuits, calls,
                   table, last, xvars>>

\* line 135: time.sleep(delay) returns
Pause ==
    /\ pc = "pause"
    /\ pauses' = pauses + 1
    /\ pc' = "loop"
    /\ UNCHANGED <<driver, session, quitCalls, getOnReleased, emiten_list, i, results,
                   callQuits, calls, escaped, table, last, xvars>>

\* line 135: time.sleep(delay) raises
PauseInterrupted ==
    /\ pc = "pause"
    /\ escaped' = TRUE
    /\ pc' = "finally"
    /\ UNCHANGED <<driver, session, quitCalls, getOnReleased, emiten_list, i, results,
                   pauses, callQuits, calls, table, last, xvars>>

\* the clean-up written after the loop instead of in a finally clause: it
\* is skipped when an exception unwinds
QuitDueNoFinally(drv, unwinding) == drv # "None" /\ ~unwinding

\* lines 136-137
QuitDue(drv, unwinding) == drv # "None"

\* lines 136-140: the finally clause, then the return or the re-raise
Finally ==
    /\ pc = "finally"
    /\ IF QuitDue(driver, escaped)
       THEN /\ session' = "quit"
            /\ quitCalls' = quitCalls + 1
            /\ callQuits' = callQuits + 1
       ELSE UNCHANGED <<session, quitCalls, callQuits>>
    /\ table' = IF escaped THEN <<>> ELSE results
    /\ pc' = IF escaped THEN "propagated" ELSE "returned"
    /\ UNCHANGED <<driver, getOnReleased, emiten_list, i, results, pauses, calls,
                   escaped, last, xvars>>

\* scrape_company called on the object directly
CompanyCall(e, env) ==
    /\ Resting
    /\ calls < MaxCalls
    /\ calls' = calls + 1
    /\ LET c == scrape_company(driver, session, e, env)
       IN  /\ driver' = c.driver
           /\ session' = c.session
           /\ getOnReleased' = (getOnReleased \/ c.gotReleased)
           /\ last' = <<[rec |-> c.rec, fault |-> c.fault, msg |-> c.msg,
                         extractCalls |-> c.extractCalls]>>
    \* nothing of an earlier scrape_multiple call is left but the driver
    /\ pc' = "idle"
    /\ emiten_list' = <<>> /\ i' = 0 /\ results' = <<>> /\ table' = <<>>
    /\ pauses' = 0 /\ callQuits' = 0 /\ escaped' = FALSE
    /\ UNCHANGED <<quitCalls, xvars>>

Next ==
    \/ \E list \in Lists : Call(list)
    \/ \E env \in Envs : LoopBody(env)
    \/ \E env \in Envs : LoopInterrupted(env)
    \/ Pause
    \/ PauseInterrupted
    \/ Finally
    \/ \E e \in EmitenCodes, env \in Envs : CompanyCall(e, env)

Spec == Init /\ [][Next]_vars

(***************************************************************************)
(* Properties of the batch driver (checked under Spec)                    *)
(***************************************************************************)
Completed == pc \in {"returned", "propagated"}
SectionFields(rec) ==
    {rec.Profile, rec.Director, rec.Comissioners, rec.Audit_Committee,
     rec.Shareholders, rec.Subsidiary, rec.Public_Accountant}

\* C3: when scrape_multiple returns, its table has exactly one row per input
\* identifier, in input order, each row carrying that identifier in
\* Emiten_Code, whatever the pattern of fetch faults.
C3_OneRowPerIdentifier ==
    pc = "returned" =>
        /\ Len(table) = Len(emiten_list)
        /\ \A k \in 1..Len(emiten_list) : table[k].Emiten_Code = emiten_list[k]

\* a batch of three that returned with a fetched row, a faulted row and
\* another fetched row
C3_Witness ==
    /\ pc = "returned"
    /\ Len(emiten_list) = 3
    /\ emiten_list[1] # emiten_list[2]
    /\ Len(table) = 3
    /\ table[1].Status = Success
    /\ table[2].Status # Success
    /\ table[3].Status = Success

\* C4: a scrape_company call whose page fetch faults makes no
\* _extract_section call and returns Status "Error: <message>" with all seven
\* section fields "N/A"; a record has Status "Success" only if the fetch
\* completed and all seven extractor calls were made, and then no section
\* field is "N/A".
C4_ErrorRecordOrFullRecord ==
    /\ \A k \in 1..Len(last) :
          /\ last[k].fault # "none" =>
                /\ last[k].extractCalls = 0
                /\ last[k].rec.Status = <<"Error: ", last[k].msg>>
                /\ SectionFields(last[k].rec) = {NA}
          /\ last[k].rec.Status = Success =>
                /\ last[k].fault = "none"
                /\ last[k].extractCalls = 7
                /\ NA \notin SectionFields(last[k].rec)
    /\ \A k \in 1..Len(results) :
          results[k].Status = Success => NA \notin SectionFields(results[k])

\* a fetched record whose Director section reads "N/A" on the page, followed
\* by a record whose wait for the body timed out
C4_Witness ==
    /\ Len(results) = 2
    /\ results[1].Status = Success
    /\ results[1].Director = <<"N", "/", "A", " ", "|">>
    /\ Len(last) = 1
    /\ last[1].fault = "wait"
    /\ last[1].rec = results[2]
    /\ last[1].rec.Profile = NA
    /\ last[1].extractCalls = 0

\* C5 as stated: on every completion of scrape_multiple, by return or by an
\* exception unwinding, driver.quit has been called exactly once by that call.
C5_QuitExactlyOnce ==
    Completed => callQuits = 1

\* C5 as the code has it: on every completion, driver.quit has been called
\* exactly once by that call when the scraper holds a driver, and not at all
\* when it holds none (an empty batch on a fresh scraper, or every Chrome
\* start failed); no session is left live; never more than one quit per call.
C5_QuitOnceIfDriver ==
    /\ callQuits <= 1
    /\ Completed =>
          /\ callQuits = (IF driver # "None" THEN 1 ELSE 0)
          /\ driver = "None" => session = "none"
          /\ session # "live"

\* the exception escaped while identifier 2 of 3 was loading, and the session
\* was quit once before the call propagated it
C5_Witness ==
    /\ pc = "propagated"
    /\ Len(emiten_list) = 3
    /\ i = 1
    /\ Len(results) = 1
    /\ results[1].Status = Success
    /\ callQuits = 1
    /\ session = "quit"

\* C6: a batch of n identifiers pauses max(n-1, 0) times: the pause after
\* record k comes before identifier k+1 is fetched, after a fetched record
\* and after an error record alike, and none follows the last record.
C6_PausesBetween ==
    /\ pc = "returned" =>
          pauses = (IF Len(emiten_list) = 0 THEN 0 ELSE Len(emiten_list) - 1)
    /\ pc = "loop" => pauses = i /\ Len(results) = i /\ i < Len(emiten_list)
    /\ pc = "pause" => pauses = i - 1 /\ Len(results) = i /\ i < Len(emiten_list)
    /\ pc = "finally" /\ ~escaped => pauses = Len(results) - (IF i = 0 THEN 0 ELSE 1)

\* three identifiers, the second one faulted, two pauses
C6_Witness ==
    /\ pc = "returned"
    /\ Len(emiten_list) = 3
    /\ pauses = 2
    /\ table[2].Status # Success
    /\ table[3].Status = Success

\* C10: a page load is never issued on a session already released by
\* driver.quit, and no session is quit more than once.
C10_NoUseAfterQuit ==
    /\ ~getOnReleased
    /\ quitCalls <= 1

====
